---- MODULE Spec2Model ----
\* SvgConverter: the shape context of conversion/context/shape.h and the
\* document traversal set up by convert() in conversion.cpp.
\*
\* The stack of contexts SVG++ keeps during the depth-first traversal is the
\* variable `stack`; every SVG++ event is one action on the context on top.
EXTENDS Integers, Sequences, FiniteSets, TLC

VARIABLES
    stack,      \* contexts of the elements being traversed, innermost last
    exporter,   \* the DashedPath records handed to Exporter::plot, in call order
    log,        \* entries written to the spdlog logger
    exits,      \* one summary per on_exit_element call that is over
    status,     \* "running" | "crashed" | "done"
    nextId,     \* number of shape contexts constructed so far
    seen        \* what the traversal did with the element or attribute it met in the last step

vars == <<stack, exporter, log, exits, status, nextId, seen>>

----------------------------------------------------------------------------
\* Bounds of the model.

\* events (geometry and attribute) delivered over one traversal
MaxEvents == 2
\* shape contexts constructed over one traversal
MaxShapes == 2

----------------------------------------------------------------------------
\* Inputs.

Points == {<<10, 0>>}

\* (x1 y1, x2 y2, x y) of path_cubic_bezier_to
BezierArgs == {<< <<0, 5>>, <<10, 5>>, <<10, 0>> >>}

DashLists == {<<4, 2>>, <<1>>}

\* ids used by fill="url(#id)"; the document has a <pattern id="pat1"> and
\* no element with id "missing"
FillIds == {"pat1", "missing"}

NoNode == "null"

\* paint values SVG++ delivers that have no overload of their own in
\* ShapeContext: a color, a color with a skipped ICC color, currentColor
UnsupportedPaint == {"color", "color_icc", "currentColor"}

\* fill has an overload for a reference to an id, stroke has none
UnsupportedStroke == UnsupportedPaint \cup {"iri_fragment"}

\* affine transforms [a c e; b d f]
Identity == [a |-> 1, b |-> 0, c |-> 0, d |-> 1, e |-> 0, f |-> 0]

Translate55 == [a |-> 1, b |-> 0, c |-> 0, d |-> 1, e |-> 5, f |-> 5]

Rotate90 == [a |-> 0, b |-> 1, c |-> -1, d |-> 0, e |-> 0, f |-> 0]

LocalTransforms == {Translate55, Rotate90}

----------------------------------------------------------------------------
\* Path model (conversion/path.h).

MoveCommand(p) == [cmd |-> "Move", point |-> p, control1 |-> p, control2 |-> p]

LineCommand(p) == [cmd |-> "Line", point |-> p, control1 |-> p, control2 |-> p]

BezierCommand(p, c1, c2) == [cmd |-> "Bezier", point |-> p, control1 |-> c1, control2 |-> c2]

CloseSubpathCommand == [cmd |-> "CloseSubpath", point |-> <<0, 0>>, control1 |-> <<0, 0>>, control2 |-> <<0, 0>>]

push_command(path, command) == Append(path, command)

ApplyToPoint(T, p) == <<T.a * p[1] + T.c * p[2] + T.e, T.b * p[1] + T.d * p[2] + T.f>>

TransformCommand(T, command) ==
    IF command.cmd = "CloseSubpath"
    THEN command
    ELSE [command EXCEPT !.point = ApplyToPoint(T, @),
                         !.control1 = ApplyToPoint(T, @),
                         !.control2 = ApplyToPoint(T, @)]

\* Path::transform: every command rewritten in place
transform(path, T) == [i \in 1..Len(path) |-> TransformCommand(T, path[i])]

\* T1 * T2: the transform that applies T2 first and T1 after it
Compose(T1, T2) ==
    [a |-> T1.a * T2.a + T1.c * T2.b,
     b |-> T1.b * T2.a + T1.d * T2.b,
     c |-> T1.a * T2.c + T1.c * T2.d,
     d |-> T1.b * T2.c + T1.d * T2.d,
     e |-> T1.a * T2.e + T1.c * T2.f + T1.e,
     f |-> T1.b * T2.e + T1.d * T2.f + T1.f]

Det(T) == T.a * T.d - T.b * T.c

\* the transform handed on as it is, no inverse taken
inverse_not_taken(T) == T

\* Eigen's inverse(AffineCompact), for the transforms of determinant 1 or -1
\* the model uses
inverse(T) ==
    LET k == Det(T)
        ia == k * T.d
        ib == -(k * T.b)
        ic == -(k * T.c)
        id == k * T.a
    IN [a |-> ia, b |-> ib, c |-> ic, d |-> id,
        e |-> -(ia * T.e + ic * T.f),
        f |-> -(ib * T.e + id * T.f)]

DashedPath(shape, path, dashes, inv) ==
    [shape |-> shape, path |-> path, dashes |-> dashes, inverse_transform |-> inv]

----------------------------------------------------------------------------
\* Contexts.

\* kind: "shape" (ShapeContext) or "pattern" (the context of the <pattern> a
\* fill refers to). The contexts of svg and g elements hold nothing the shape
\* contexts read but the transform, which set_transform stands for.
\* a context whose stroke flag starts disabled
Context_unstroked(kind, id, node, T) ==
    [kind |-> kind, id |-> id, node |-> node,
     path_ |-> <<>>, dasharray_ |-> <<>>, fill_fragment_iri_ |-> "", stroke_ |-> FALSE,
     to_root |-> T,
     pc |-> "accumulating",
     events |-> <<>>, lookups |-> 0, loads |-> 0, traversals |-> 0, plots |-> 0]

Context(kind, id, node, T) ==
    [kind |-> kind, id |-> id, node |-> node,
     path_ |-> <<>>, dasharray_ |-> <<>>, fill_fragment_iri_ |-> "", stroke_ |-> TRUE,
     to_root |-> T,
     pc |-> "accumulating",
     events |-> <<>>, lookups |-> 0, loads |-> 0, traversals |-> 0, plots |-> 0]

Top == stack[Len(stack)]

Below == SubSeq(stack, 1, Len(stack) - 1)

ParentTransform == IF stack = <<>> THEN Identity ELSE Top.to_root

WithTop(ctx) == [stack EXCEPT ![Len(stack)] = ctx]

\* events received so far by the contexts alive and by those already left
RECURSIVE SumEvents(_)
SumEvents(s) == IF s = <<>> THEN 0 ELSE Len(Head(s).events) + SumEvents(Tail(s))

Accumulating ==
    /\ status = "running"
    /\ stack # <<>>
    /\ Top.kind = "shape"
    /\ Top.pc = "accumulating"
    /\ SumEvents(stack) + SumEvents(exits) < MaxEvents

\* one event recorded in the history of the context
Event(name, arg) == [ev |-> name, arg |-> arg]

Received(ctx, name, arg) == [ctx EXCEPT !.events = Append(@, Event(name, arg))]

----------------------------------------------------------------------------
\* ShapeContext: the SVG++ path events.

path_move_to(ctx, xy) == [ctx EXCEPT !.path_ = push_command(@, MoveCommand(xy))]

path_line_to(ctx, xy) == [ctx EXCEPT !.path_ = push_command(@, LineCommand(xy))]

path_cubic_bezier_to(ctx, x1y1, x2y2, xy) ==
    [ctx EXCEPT !.path_ = push_command(@, BezierCommand(xy, x1y1, x2y2))]

\* a close_subpath that pushes nothing
path_close_subpath_dropped(ctx) == ctx

path_close_subpath(ctx) == [ctx EXCEPT !.path_ = push_command(@, CloseSubpathCommand)]

\* ShapeContext: the SVG++ attribute events.

\* a none that leaves the list set before
set_stroke_dasharray_none_kept(ctx) == ctx

set_stroke_dasharray_none(ctx) == [ctx EXCEPT !.dasharray_ = <<>>]

\* a dasharray that also turns the stroke on
set_stroke_dasharray_enabling(ctx, range) == [ctx EXCEPT !.dasharray_ = range, !.stroke_ = TRUE]

set_stroke_dasharray(ctx, range) == [ctx EXCEPT !.dasharray_ = range]

\* an unsupported stroke value handled as none
set_stroke_as_none(ctx, value) == [ctx EXCEPT !.stroke_ = FALSE]

\* set(stroke, Args...) and set(fill, Args...) only log
set_stroke(ctx, value) == ctx

set_stroke_none(ctx) == [ctx EXCEPT !.stroke_ = FALSE]

set_fill(ctx, value) == ctx

\* a none that keeps the reference
set_fill_none_kept(ctx) == ctx

set_fill_none(ctx) == [ctx EXCEPT !.fill_fragment_iri_ = ""]

set_fill_iri_fragment(ctx, id) == [ctx EXCEPT !.fill_fragment_iri_ = id]

\* the variadic template alone, without the overload for colors
warn_unsupported_paint_server_variadic(attribute, value) ==
    [level |-> "warn", attribute |-> attribute]

\* detail::warn_unsupported_paint_server: the overload for (int) and
\* (int, skip_icc_color) logs at debug, the variadic template at warn
warn_unsupported_paint_server(attribute, value) ==
    IF value \in {"color", "color_icc"}
    THEN [level |-> "debug", attribute |-> attribute]
    ELSE [level |-> "warn", attribute |-> attribute]

\* the context's own transform attribute composed on the transform inherited
\* from the parent (conversion/context/base.h)
set_transform(ctx, T) == [ctx EXCEPT !.to_root = Compose(@, T)]

----------------------------------------------------------------------------
\* The events as steps of the traversal: SVG++ calls the handler of the
\* context of the element it is in. `ctx` is the context as the handler
\* leaves it, `entries` what the handler logged.

Handle(ctx, name, arg, entries) ==
    /\ stack' = WithTop(Received(ctx, name, arg))
    /\ log' = log \o entries
    /\ UNCHANGED <<exporter, exits, status, nextId>>

HandleMoveTo(xy) == Handle(path_move_to(Top, xy), "path_move_to", <<xy>>, <<>>)

HandleLineTo(xy) == Handle(path_line_to(Top, xy), "path_line_to", <<xy>>, <<>>)

HandleCubicBezierTo(args) ==
    Handle(path_cubic_bezier_to(Top, args[1], args[2], args[3]),
           "path_cubic_bezier_to", args, <<>>)

HandleCloseSubpath == Handle(path_close_subpath(Top), "path_close_subpath", <<>>, <<>>)

HandleStrokeDasharrayNone ==
    Handle(set_stroke_dasharray_none(Top), "stroke_dasharray_none", <<>>, <<>>)

HandleStrokeDasharray(range) ==
    Handle(set_stroke_dasharray(Top, range), "stroke_dasharray", range, <<>>)

HandleStroke(value) ==
    Handle(set_stroke(Top, value), "stroke", value,
           <<warn_unsupported_paint_server("stroke", value)>>)

HandleStrokeNone == Handle(set_stroke_none(Top), "stroke_none", <<>>, <<>>)

HandleFill(value) ==
    Handle(set_fill(Top, value), "fill", value,
           <<warn_unsupported_paint_server("fill", value)>>)

HandleFillNone == Handle(set_fill_none(Top), "fill_none", <<>>, <<>>)

HandleFillIriFragment(id) ==
    Handle(set_fill_iri_fragment(Top, id), "fill_iri_fragment", id, <<>>)

HandleTransform(T) == Handle(set_transform(Top, T), "transform", T, <<>>)

PathMoveTo(xy) == Accumulating /\ HandleMoveTo(xy) /\ seen' = {}

PathLineTo(xy) == Accumulating /\ HandleLineTo(xy) /\ seen' = {}

PathCubicBezierTo(args) == Accumulating /\ HandleCubicBezierTo(args) /\ seen' = {}

PathCloseSubpath == Accumulating /\ HandleCloseSubpath /\ seen' = {}

SetStrokeDasharrayNone == Accumulating /\ HandleStrokeDasharrayNone /\ seen' = {}

SetStrokeDasharray(range) == Accumulating /\ HandleStrokeDasharray(range) /\ seen' = {}

SetStroke(value) == Accumulating /\ HandleStroke(value) /\ seen' = {}

SetStrokeNone == Accumulating /\ HandleStrokeNone /\ seen' = {}

SetFill(value) == Accumulating /\ HandleFill(value) /\ seen' = {}

SetFillNone == Accumulating /\ HandleFillNone /\ seen' = {}

SetFillIriFragment(id) == Accumulating /\ HandleFillIriFragment(id) /\ seen' = {}

SetTransform(T) == Accumulating /\ HandleTransform(T) /\ seen' = {}

----------------------------------------------------------------------------
\* The traversal settings of convert() (conversion.cpp).

shape_elements == {"path", "rect", "circle", "ellipse", "line", "polyline", "polygon"}

\* pattern listed among the elements of the main traversal
processed_elements_with_pattern == shape_elements \cup {"svg", "g", "pattern"}

processed_elements_t == shape_elements \cup {"svg", "g"}

\* svgpp::traits::shapes_attributes_by_element, for the shape elements above
shapes_attributes == {"d", "x", "y", "width", "height", "rx", "ry", "cx", "cy", "r",
                      "x1", "y1", "x2", "y2", "points"}

processed_attributes_t == shapes_attributes \cup {"transform"}

\* the element kinds a document may hold that matter here
ElementKinds == {"path", "rect", "g", "pattern"}

\* the attribute kinds a shape element may carry that matter here
AttributeKinds == {"d", "transform", "fill", "stroke", "stroke-dasharray", "opacity"}

\* ContextFactories: the context constructed for an element
ContextFactories(kind) ==
    IF kind \in shape_elements THEN "shape"
    ELSE IF kind = "pattern" THEN "pattern"
    ELSE "group"

\* the elements of the document that carry an id
Document == [pat1 |-> "pattern"]

find_by_id(id) == IF id \in DOMAIN Document THEN id ELSE NoNode

----------------------------------------------------------------------------
\* ShapeContext::on_exit_element.

ExpectedElements == {"pattern"}

ProcessedElements == ExpectedElements

\* the fill resolved only for a shape that is stroked
fill_requested_when_stroked(ctx) == ctx.fill_fragment_iri_ # "" /\ ctx.stroke_

fill_requested(ctx) == ctx.fill_fragment_iri_ # ""

\* the record plotted whatever the stroke flag says
stroke_requested_always(ctx) == TRUE

stroke_requested(ctx) == ctx.stroke_

\* load_referenced_element<expected_elements, processed_elements>::load: what
\* the call does with the node it is given. The node is used without a check:
\* with no node the read through it is undefined, the outcomes are a crash or
\* a return without a traversal.
load(referenced_node) ==
    IF referenced_node = NoNode
    THEN {"crash", "return"}
    ELSE IF Document[referenced_node] \notin ExpectedElements
    THEN {"unexpected_element"}
    ELSE IF Document[referenced_node] \in ProcessedElements
    THEN {"enter"}
    ELSE {"return"}

\* ShapeContext::outline_path, what the pattern context reads of the shape
outline_path(ctx) == ctx.path_

\* the path and the dasharray moved out before load is called
loading_moved(ctx) ==
    [ctx EXCEPT !.pc = "fill", !.traversals = @ + 1, !.path_ = <<>>, !.dasharray_ = <<>>]

\* the shape context while load traverses the pattern: it is handed to load
\* as it is after line 380
loading(ctx) == [ctx EXCEPT !.pc = "fill", !.traversals = @ + 1]

\* a record built from copies: the context keeps its path and dasharray
PlotAndLeave_copied(ctx, rest) ==
    LET dashed_path == DashedPath(ctx.id, ctx.path_, ctx.dasharray_, inverse(ctx.to_root))
        copied == [ctx EXCEPT !.plots = @ + 1]
    IN /\ exporter' = IF stroke_requested(ctx) THEN Append(exporter, dashed_path) ELSE exporter
       /\ exits' = Append(exits, [(IF stroke_requested(ctx) THEN copied ELSE ctx)
                                    EXCEPT !.pc = "finalized"])
       /\ stack' = rest
       /\ status' = status

\* lines 390-397, the end of the handler; the context is destroyed after it
PlotAndLeave(ctx, rest) ==
    LET dashed_path == DashedPath(ctx.id, ctx.path_, ctx.dasharray_, inverse(ctx.to_root))
        moved == [ctx EXCEPT !.path_ = <<>>, !.dasharray_ = <<>>, !.plots = @ + 1]
    IN /\ exporter' = IF stroke_requested(ctx) THEN Append(exporter, dashed_path) ELSE exporter
       /\ exits' = Append(exits, [(IF stroke_requested(ctx) THEN moved ELSE ctx)
                                    EXCEPT !.pc = "finalized"])
       /\ stack' = rest
       /\ status' = status

OnExitElement ==
    /\ status = "running"
    /\ stack # <<>>
    /\ Top.kind = "shape"
    /\ Top.pc = "accumulating"
    /\ LET ctx == [Top EXCEPT !.path_ = transform(@, Top.to_root)]
       IN IF fill_requested(ctx)
          THEN LET referenced_node == find_by_id(ctx.fill_fragment_iri_)
                   called == [ctx EXCEPT !.lookups = @ + 1, !.loads = @ + 1]
               IN \E outcome \in load(referenced_node) :
                    CASE outcome = "enter" ->
                           /\ stack' = Append(WithTop(loading(called)),
                                              Context(ContextFactories(Document[referenced_node]),
                                                      0, referenced_node, ctx.to_root))
                           /\ UNCHANGED <<exporter, exits, status>>
                      [] outcome = "return" -> PlotAndLeave(called, Below)
                      [] OTHER ->
                           /\ status' = "crashed"
                           /\ exits' = Append(exits, [called EXCEPT !.pc = outcome])
                           /\ stack' = Below
                           /\ UNCHANGED exporter
          ELSE PlotAndLeave(ctx, Below)
    /\ UNCHANGED <<log, nextId>>
    /\ seen' = {}

\* the traversal of the referenced <pattern> is over: load returns into
\* on_exit_element of the shape, which goes on at line 390
LoadReturn ==
    /\ status = "running"
    /\ Len(stack) >= 2
    /\ Top.kind = "pattern"
    /\ stack[Len(stack) - 1].pc = "fill"
    /\ PlotAndLeave(stack[Len(stack) - 1], SubSeq(stack, 1, Len(stack) - 2))
    /\ UNCHANGED <<log, nextId>>
    /\ seen' = {}

----------------------------------------------------------------------------
\* The traversal: document_traversal::load_document and the children of the
\* elements it enters.

\* the dispatch of one child element of kind `kind`
Dispatch(kind) ==
    IF kind \in processed_elements_t
    THEN /\ seen' = IF ContextFactories(kind) = "shape" THEN {} ELSE {<<"processed", kind>>}
         /\ CASE ContextFactories(kind) = "shape" ->
                   /\ nextId < MaxShapes
                   /\ nextId' = nextId + 1
                   /\ stack' = Append(stack, Context("shape", nextId', NoNode, ParentTransform))
              [] ContextFactories(kind) = "pattern" ->
                   /\ stack' = Append(stack, Context("pattern", 0, NoNode, ParentTransform))
                   /\ UNCHANGED nextId
              [] OTHER -> UNCHANGED <<stack, nextId>>
    ELSE /\ seen' = {<<"ignored", kind>>}
         /\ UNCHANGED <<stack, nextId>>

\* a child of the document's root
EnterElement(kind) ==
    /\ status = "running"
    /\ stack = <<>>
    /\ Dispatch(kind)
    /\ UNCHANGED <<exporter, log, exits, status>>

\* a child of the <pattern> a fill refers to
EnterPatternChild(kind) ==
    /\ status = "running"
    /\ stack # <<>>
    /\ Top.kind = "pattern"
    /\ Dispatch(kind)
    /\ UNCHANGED <<exporter, log, exits, status>>

\* load_document returns
Finish ==
    /\ status = "running"
    /\ stack = <<>>
    /\ status' = "done"
    /\ UNCHANGED <<stack, exporter, log, exits, nextId>>
    /\ seen' = {}

Init ==
    /\ stack = <<>>
    /\ exporter = <<>>
    /\ log = <<>>
    /\ exits = <<>>
    /\ status = "running"
    /\ nextId = 0
    /\ seen = {}

PathEvent ==
    \/ \E xy \in Points : PathMoveTo(xy)
    \/ \E xy \in Points : PathLineTo(xy)
    \/ \E args \in BezierArgs : PathCubicBezierTo(args)
    \/ PathCloseSubpath

AttributeEvent ==
    \/ SetStrokeDasharrayNone
    \/ \E range \in DashLists : SetStrokeDasharray(range)
    \/ \E value \in UnsupportedStroke : SetStroke(value)
    \/ SetStrokeNone
    \/ \E value \in UnsupportedPaint : SetFill(value)
    \/ SetFillNone
    \/ \E id \in FillIds : SetFillIriFragment(id)
    \/ \E T \in LocalTransforms : SetTransform(T)

\* the shape context driven by the SVG++ events it has handlers for
Next ==
    \/ \E kind \in ElementKinds : EnterElement(kind)
    \/ \E kind \in ElementKinds : EnterPatternChild(kind)
    \/ PathEvent
    \/ AttributeEvent
    \/ OnExitElement
    \/ LoadReturn
    \/ Finish

Spec == Init /\ [][Next]_vars

----------------------------------------------------------------------------
\* convert(): the traversal hands an attribute of an element to the context
\* only when processed_attributes lists its kind.

\* what SVG++ calls for a delivered attribute of kind `kind`; the shape
\* attributes come as the path events, which PathEvent gives
AttributeHandler(kind) ==
    CASE kind = "transform" -> \E T \in LocalTransforms : HandleTransform(T)
      [] kind = "fill" ->
           \/ HandleFillNone
           \/ \E id \in FillIds : HandleFillIriFragment(id)
           \/ \E value \in UnsupportedPaint : HandleFill(value)
      [] kind = "stroke" ->
           \/ HandleStrokeNone
           \/ \E value \in UnsupportedStroke : HandleStroke(value)
      [] kind = "stroke-dasharray" ->
           \/ HandleStrokeDasharrayNone
           \/ \E range \in DashLists : HandleStrokeDasharray(range)
      [] OTHER -> UNCHANGED <<stack, exporter, log, exits, status, nextId>>

LoadAttribute(kind) ==
    /\ Accumulating
    /\ IF kind \in processed_attributes_t
       THEN /\ seen' = {<<"delivered", kind>>}
            /\ AttributeHandler(kind)
       ELSE /\ seen' = {<<"ignored", kind>>}
            /\ UNCHANGED <<stack, exporter, log, exits, status, nextId>>

NextConvert ==
    \/ \E kind \in ElementKinds : EnterElement(kind)
    \/ \E kind \in AttributeKinds : LoadAttribute(kind)
    \/ PathEvent
    \/ OnExitElement
    \/ Finish

ConvertSpec == Init /\ [][NextConvert]_vars

----------------------------------------------------------------------------
\* What the histories say: the events a context received, read back.

GeometryNames == {"path_move_to", "path_line_to", "path_cubic_bezier_to", "path_close_subpath"}

IsGeometry(e) == e.ev \in GeometryNames

GeometryOf(events) == SelectSeq(events, IsGeometry)

CommandKind(e) ==
    CASE e.ev = "path_move_to" -> "Move"
      [] e.ev = "path_line_to" -> "Line"
      [] e.ev = "path_cubic_bezier_to" -> "Bezier"
      [] e.ev = "path_close_subpath" -> "CloseSubpath"

\* the end point the event carries (none for close_subpath)
EndPoint(e) ==
    CASE e.ev = "path_cubic_bezier_to" -> e.arg[3]
      [] e.ev = "path_close_subpath" -> <<0, 0>>
      [] OTHER -> e.arg[1]

\* index of the last event with a name in `names`, 0 when there is none
LastOf(events, names) ==
    LET hits == {i \in 1..Len(events) : events[i].ev \in names}
    IN IF hits = {} THEN 0 ELSE CHOOSE i \in hits : \A j \in hits : j <= i

LastDash(events) ==
    LET i == LastOf(events, {"stroke_dasharray", "stroke_dasharray_none"})
    IN IF i = 0 THEN <<>>
       ELSE IF events[i].ev = "stroke_dasharray" THEN events[i].arg ELSE <<>>

\* the id of the last fill reference no fill = none follows
LastFillReference(events) ==
    LET r == LastOf(events, {"fill_iri_fragment"})
        n == LastOf(events, {"fill_none"})
    IN IF r > n THEN events[r].arg ELSE ""

Has(events, names) == LastOf(events, names) # 0

\* number of plot calls made for the shape context `id`
Plotted(id) == Cardinality({i \in 1..Len(exporter) : exporter[i].shape = id})

\* the on_exit_element call of exits[i] came to its end
Finalized(i) == exits[i].pc = "finalized"

Resolves(id) == id # "" /\ find_by_id(id) # NoNode

Dangling(id) == id # "" /\ find_by_id(id) = NoNode

----------------------------------------------------------------------------
\* C1: an element-exit makes exactly one plot call for its shape when stroke
\* is enabled and none when stroke = none was set, whatever the fill is.
C1_PlotOncePerStrokedExit ==
    \A i \in 1..Len(exits) :
        Plotted(exits[i].id) = (IF exits[i].stroke_ THEN 1 ELSE 0)

\* C2: a fill reference to an id the document does not have starts no
\* pattern sub-traversal and raises no error, and the stroke is still plotted.
C2_DanglingFillSkipped ==
    \A i \in 1..Len(exits) :
        Dangling(exits[i].fill_fragment_iri_) =>
            /\ exits[i].traversals = 0
            /\ Finalized(i)
            /\ exits[i].stroke_ => Plotted(exits[i].id) = 1

\* C3: the fill reference a shape holds is the id of the last fill reference
\* that no fill = none follows, empty otherwise; with an empty reference the
\* element-exit looks up no id and starts no sub-traversal.
C3_FillReferenceLastWins ==
    /\ \A i \in 1..Len(stack) :
           stack[i].kind = "shape" =>
               stack[i].fill_fragment_iri_ = LastFillReference(stack[i].events)
    /\ \A i \in 1..Len(exits) :
           /\ exits[i].fill_fragment_iri_ = LastFillReference(exits[i].events)
           /\ LastFillReference(exits[i].events) = "" =>
                  /\ exits[i].lookups = 0
                  /\ exits[i].loads = 0
                  /\ exits[i].traversals = 0

\* a shape left with no lookup after a reference was set and cleared
C3_Witness ==
    \E i \in 1..Len(exits) :
        /\ Finalized(i)
        /\ Has(exits[i].events, {"fill_iri_fragment"})
        /\ exits[i].events[Len(exits[i].events)].ev = "fill_none"
        /\ exits[i].fill_fragment_iri_ = ""
        /\ exits[i].lookups = 0

\* the summary of the on_exit_element call that plotted exporter[k]
ExitOf(k) == CHOOSE i \in 1..Len(exits) : exits[i].id = exporter[k].shape

\* C4: the dashes of a plotted record are the value of the last
\* stroke-dasharray event of its shape: the list, or empty after none and
\* when there was no such event.
C4_DashesLastWriteWins ==
    \A k \in 1..Len(exporter) :
        /\ \E i \in 1..Len(exits) : exits[i].id = exporter[k].shape
        /\ exporter[k].dashes = LastDash(exits[ExitOf(k)].events)

\* a record with empty dashes whose shape had a list and then none
C4_Witness ==
    \E k \in 1..Len(exporter) :
        LET events == exits[ExitOf(k)].events
        IN /\ Len(events) >= 2
           /\ events[1].ev = "stroke_dasharray"
           /\ events[1].arg # <<>>
           /\ events[2].ev = "stroke_dasharray_none"
           /\ exporter[k].dashes = <<>>

\* C5: the path holds one command per geometry event, of the event's kind
\* and with its end point, in the order received; the plotted path keeps
\* the kinds in that order.
C5_PathOrderPreserved ==
    /\ \A i \in 1..Len(stack) :
           (stack[i].kind = "shape" /\ stack[i].pc = "accumulating") =>
               LET g == GeometryOf(stack[i].events)
               IN /\ Len(stack[i].path_) = Len(g)
                  /\ \A n \in 1..Len(g) :
                         /\ stack[i].path_[n].cmd = CommandKind(g[n])
                         /\ stack[i].path_[n].point = EndPoint(g[n])
    /\ \A k \in 1..Len(exporter) :
           LET g == GeometryOf(exits[ExitOf(k)].events)
           IN /\ Len(exporter[k].path) = Len(g)
              /\ \A n \in 1..Len(g) : exporter[k].path[n].cmd = CommandKind(g[n])

\* a plotted path of two commands of different kinds
C5_Witness ==
    \E k \in 1..Len(exporter) :
        /\ Len(exporter[k].path) >= 2
        /\ exporter[k].path[1].cmd # exporter[k].path[2].cmd

\* the step is an unsupported stroke or fill value handled by the context on top
UnsupportedStep ==
    /\ stack # <<>>
    /\ Len(stack') = Len(stack)
    /\ Top.kind = "shape"
    /\ Len(stack'[Len(stack)].events) = Len(Top.events) + 1
    /\ stack'[Len(stack)].events[Len(Top.events) + 1].ev \in {"stroke", "fill"}

C6_StateUnchanged ==
    UnsupportedStep =>
        LET after == stack'[Len(stack)]
        IN /\ after.stroke_ = Top.stroke_
           /\ after.fill_fragment_iri_ = Top.fill_fragment_iri_
           /\ after.dasharray_ = Top.dasharray_
           /\ after.path_ = Top.path_
           /\ after.pc = "accumulating"
           /\ status' = "running"
           /\ exporter' = exporter
           /\ exits' = exits

C6_StillEmitted ==
    \A i \in 1..Len(exits) :
        (Finalized(i) /\ Has(exits[i].events, {"stroke", "fill"})) =>
            Plotted(exits[i].id) = (IF Has(exits[i].events, {"stroke_none"}) THEN 0 ELSE 1)

\* C6: an unsupported stroke or fill value leaves stroke flag, fill reference,
\* dasharray and path as they were, raises no error, and the shape is emitted
\* at element-exit as it would have been without the event.
C6_UnsupportedPaintIgnored == []C6_StillEmitted /\ [][C6_StateUnchanged]_vars

\* a shape plotted after an unsupported stroke value and an unsupported fill value
C6_Witness ==
    \E i \in 1..Len(exits) :
        /\ Finalized(i)
        /\ Has(exits[i].events, {"stroke"})
        /\ Has(exits[i].events, {"fill"})
        /\ Plotted(exits[i].id) = 1

\* C7: a fill reference that resolves to a pattern starts exactly one pattern
\* sub-traversal whether the stroke is enabled or not; with stroke = none the
\* sub-traversal runs and no plot call is made for the shape.
C7_FillIndependentOfStroke ==
    /\ \A i \in 1..Len(stack) :
           (stack[i].kind = "shape" /\ stack[i].pc = "fill") =>
               /\ Resolves(stack[i].fill_fragment_iri_)
               /\ stack[i].traversals = 1
    /\ \A i \in 1..Len(exits) :
           Resolves(exits[i].fill_fragment_iri_) =>
               /\ Finalized(i)
               /\ exits[i].lookups = 1
               /\ exits[i].loads = 1
               /\ exits[i].traversals = 1
               /\ Plotted(exits[i].id) = (IF exits[i].stroke_ THEN 1 ELSE 0)

\* a shape with stroke = none whose pattern was traversed and that was not plotted
C7_Witness ==
    \E i \in 1..Len(exits) :
        /\ Finalized(i)
        /\ ~exits[i].stroke_
        /\ Resolves(exits[i].fill_fragment_iri_)
        /\ exits[i].traversals = 1
        /\ Plotted(exits[i].id) = 0

\* the attribute kinds the specification lists as delivered
ClaimedAttributes == shapes_attributes \cup {"transform", "fill", "stroke", "stroke-dasharray"}

\* C8: the traversal delivers exactly the shape-geometry attributes,
\* transform, fill, stroke and stroke-dasharray: each of these reaches the
\* context when a shape element carries it, and no other attribute does.
C8_DeliveredAttributeKinds ==
    \A kind \in AttributeKinds :
        /\ <<"delivered", kind>> \in seen => kind \in ClaimedAttributes
        /\ <<"ignored", kind>> \in seen => kind \notin ClaimedAttributes

\* C9: a pattern context exists only right above the shape whose element-exit
\* looked it up for its fill; the main traversal processes shape elements, svg
\* and g, so a pattern element met there gets no context, and a shape context
\* exists only at the document level or inside a referenced pattern.
C9_PatternOnlyWhenReferenced ==
    /\ \A i \in 1..Len(stack) :
           stack[i].kind = "pattern" =>
               /\ i > 1
               /\ stack[i - 1].kind = "shape"
               /\ stack[i - 1].pc = "fill"
               /\ stack[i].node # NoNode
               /\ stack[i].node = find_by_id(stack[i - 1].fill_fragment_iri_)
    /\ \A i \in 1..Len(stack) :
           stack[i].kind = "shape" => (i = 1 \/ stack[i - 1].kind = "pattern")
    /\ \A kind \in ElementKinds :
           <<"processed", kind>> \in seen => kind \in {"svg", "g"}

\* a pattern element met by the main traversal and ignored, after another
\* shape's fill did traverse the pattern
C9_Witness ==
    /\ seen = {<<"ignored", "pattern">>}
    /\ stack = <<>>
    /\ \E i \in 1..Len(exits) : exits[i].traversals = 1

\* C10: no chain of pattern sub-traversals recurses without bound: a pattern
\* is never entered again while its own sub-traversal is running.
C10_NoPatternReentered ==
    \A i \in 1..Len(stack) :
        \A j \in 1..Len(stack) :
            (i < j /\ stack[i].kind = "pattern" /\ stack[j].kind = "pattern") =>
                stack[i].node # stack[j].node

----------------------------------------------------------------------------
\* the command a geometry event pushes (lines 287-312)
CommandOf(e) ==
    CASE e.ev = "path_move_to" -> MoveCommand(e.arg[1])
      [] e.ev = "path_line_to" -> LineCommand(e.arg[1])
      [] e.ev = "path_cubic_bezier_to" -> BezierCommand(e.arg[3], e.arg[1], e.arg[2])
      [] e.ev = "path_close_subpath" -> CloseSubpathCommand

\* the path as accumulated in local coordinates from the geometry events
LocalPath(events) ==
    LET g == GeometryOf(events)
    IN [n \in 1..Len(g) |-> CommandOf(g[n])]

\* the on_exit_element call of exits[i] made the plot call exporter[k]
RecordOf(i, k) == exporter[k].shape = exits[i].id

\* C11: the record plotted for a shape finalized with stroke enabled has the
\* local path with the composed transform applied once, the accumulated
\* dasharray and the inverse of that transform; the inverse applied to the
\* plotted path gives the local path back.
C11_RecordRoundTrip ==
    \A i \in 1..Len(exits) :
        (Finalized(i) /\ exits[i].stroke_) =>
            /\ \E k \in 1..Len(exporter) : RecordOf(i, k)
            /\ \A k \in 1..Len(exporter) :
                   RecordOf(i, k) =>
                       /\ exporter[k].path = transform(LocalPath(exits[i].events), exits[i].to_root)
                       /\ exporter[k].dashes = LastDash(exits[i].events)
                       /\ exporter[k].inverse_transform = inverse(exits[i].to_root)
                       /\ Compose(exporter[k].inverse_transform, exits[i].to_root) = Identity
                       /\ transform(exporter[k].path, exporter[k].inverse_transform)
                              = LocalPath(exits[i].events)

\* a record whose path was moved by the transform of its shape
C11_Witness ==
    \E i \in 1..Len(exits) :
        \E k \in 1..Len(exporter) :
            /\ Finalized(i)
            /\ RecordOf(i, k)
            /\ Has(exits[i].events, {"transform"})
            /\ exporter[k].path # <<>>
            /\ exporter[k].path # LocalPath(exits[i].events)
            /\ transform(exporter[k].path, exporter[k].inverse_transform)
                   = LocalPath(exits[i].events)

----------------------------------------------------------------------------
\* Path::transform on its own: one Path object, built by path events and then
\* transformed in place any number of times.

\* commands of the path the object starts with
MaxPathLen == 2
\* in-place transforms applied to it
MaxApplied == 2

PathPoints == {<<10, 0>>, <<3, 4>>}

Scale23 == [a |-> 2, b |-> 0, c |-> 0, d |-> 3, e |-> 0, f |-> 0]

PathTransforms == LocalTransforms \cup {Scale23}

GeometryEvents ==
    {Event("path_move_to", <<xy>>) : xy \in PathPoints}
        \cup {Event("path_line_to", <<xy>>) : xy \in PathPoints}
        \cup {Event("path_cubic_bezier_to", args) : args \in BezierArgs}
        \cup {Event("path_close_subpath", <<>>)}

SeqsUpTo(S, n) == UNION {[1..k -> S] : k \in 0..n}

\* number of in-place transforms in the history
RECURSIVE Applied(_)
Applied(events) ==
    IF events = <<>> THEN 0
    ELSE (IF Head(events).ev = "path_transform" THEN 1 ELSE 0) + Applied(Tail(events))

PathInit ==
    /\ \E g \in SeqsUpTo(GeometryEvents, MaxPathLen) :
           stack = <<[Context("shape", 1, NoNode, Identity)
                        EXCEPT !.path_ = LocalPath(g), !.events = g]>>
    /\ exporter = <<>>
    /\ log = <<>>
    /\ exits = <<>>
    /\ status = "running"
    /\ nextId = 1
    /\ seen = {}

\* a transform that works on a copy and leaves the path as it was
PathTransform_on_copy(T) ==
    /\ stack # <<>>
    /\ Applied(Top.events) < MaxApplied
    /\ stack' = WithTop(Received(Top, "path_transform", T))
    /\ UNCHANGED <<exporter, log, exits, status, nextId, seen>>

\* path_.transform(T)
PathTransform(T) ==
    /\ stack # <<>>
    /\ Applied(Top.events) < MaxApplied
    /\ stack' = WithTop(Received([Top EXCEPT !.path_ = transform(@, T)], "path_transform", T))
    /\ UNCHANGED <<exporter, log, exits, status, nextId, seen>>

NextPath == \E T \in PathTransforms : PathTransform(T)

PathSpec == PathInit /\ [][NextPath]_vars

\* the single transform equal to the in-place transforms of the history, the
\* later ones after the earlier ones
RECURSIVE ComposedOf(_)
ComposedOf(events) ==
    IF events = <<>> THEN Identity
    ELSE LET e == events[Len(events)]
             earlier == ComposedOf(SubSeq(events, 1, Len(events) - 1))
         IN IF e.ev = "path_transform" THEN Compose(e.arg, earlier) ELSE earlier

\* C12: transforming a path in place by T1 and then by T2 gives the path that
\* one transform by the composition (T2 after T1) gives; a transform leaves
\* CloseSubpath commands as they are and keeps the number and the order of
\* the commands.
C12_TransformComposes ==
    \A i \in 1..Len(stack) :
        LET P == LocalPath(stack[i].events)
            Q == stack[i].path_
        IN /\ Q = transform(P, ComposedOf(stack[i].events))
           /\ Len(Q) = Len(P)
           /\ \A n \in 1..Len(P) :
                  /\ Q[n].cmd = P[n].cmd
                  /\ P[n].cmd = "CloseSubpath" => Q[n] = P[n]

\* two transforms that do not commute applied to a path with a CloseSubpath
\* and a command that carries coordinates
C12_Witness ==
    /\ Len(stack) = 1
    /\ LET ev == stack[1].events
           n == Len(ev)
       IN /\ n >= 4
          /\ ev[n - 1].ev = "path_transform"
          /\ ev[n].ev = "path_transform"
          /\ Compose(ev[n].arg, ev[n - 1].arg) # Compose(ev[n - 1].arg, ev[n].arg)
          /\ stack[1].path_[1].cmd = "Line"
          /\ stack[1].path_[2].cmd = "CloseSubpath"
          /\ stack[1].path_[1] # LocalPath(ev)[1]
          /\ stack[1].path_ = transform(LocalPath(ev), Compose(ev[n].arg, ev[n - 1].arg))

----------------------------------------------------------------------------
----------------------------------------------------------------------------
\* the on_exit_element call came to its end with the stroke enabled
StrokedExit(x) == x.pc = "finalized" /\ x.stroke_

\* exits[j] is the exit of a shape met in the pattern sub-traversal of
\* exits[i]: constructed after it, left before it
NestedIn(j, i) == j < i /\ exits[j].id > exits[i].id

\* C14: the plot calls come in the order in which the element-exits of the
\* stroked shapes end, the plot calls of the shapes of a pattern before the
\* plot call of the shape the pattern fills, and there are as many plot calls
\* as shape contexts finalized with stroke enabled.
C14_PlotsInExitOrder ==
    LET stroked == SelectSeq(exits, StrokedExit)
    IN /\ Len(exporter) = Len(stroked)
       /\ \A k \in 1..Len(stroked) :
              k <= Len(exporter) => exporter[k].shape = stroked[k].id
       /\ \A i \in 1..Len(exits) :
              \A j \in 1..Len(exits) :
                  (NestedIn(j, i) /\ StrokedExit(exits[i]) /\ StrokedExit(exits[j])) =>
                      \E k \in 1..Len(exporter) :
                          \E l \in 1..Len(exporter) :
                              /\ k < l
                              /\ RecordOf(j, k)
                              /\ RecordOf(i, l)

\* the record of a shape of the pattern plotted before the record of the
\* shape the pattern fills
C14_Witness ==
    /\ Len(exits) = 2
    /\ Len(exporter) = 2
    /\ NestedIn(1, 2)
    /\ exits[2].traversals = 1
    /\ StrokedExit(exits[1])
    /\ StrokedExit(exits[2])
    /\ RecordOf(1, 1)
    /\ RecordOf(2, 2)

----------------------------------------------------------------------------
PaintEventNames ==
    {"fill", "fill_none", "fill_iri_fragment", "stroke", "stroke_none",
     "stroke_dasharray", "stroke_dasharray_none"}

\* C15: a shape that gets no fill, stroke or stroke-dasharray event has the
\* stroke enabled, an empty dasharray and an empty fill reference; its
\* element-exit looks up no id, traverses no pattern and plots exactly one
\* record, with no dashes.
C15_DefaultsWhenUnset ==
    /\ \A i \in 1..Len(stack) :
           (stack[i].kind = "shape" /\ ~Has(stack[i].events, PaintEventNames)) =>
               /\ stack[i].stroke_
               /\ stack[i].dasharray_ = <<>>
               /\ stack[i].fill_fragment_iri_ = ""
               /\ stack[i].pc = "accumulating"
    /\ \A i \in 1..Len(exits) :
           ~Has(exits[i].events, PaintEventNames) =>
               /\ Finalized(i)
               /\ exits[i].stroke_
               /\ exits[i].fill_fragment_iri_ = ""
               /\ exits[i].lookups = 0
               /\ exits[i].loads = 0
               /\ exits[i].traversals = 0
               /\ Plotted(exits[i].id) = 1
               /\ \A k \in 1..Len(exporter) : RecordOf(i, k) => exporter[k].dashes = <<>>

\* a shape of two geometry events and nothing else, plotted solid
C15_Witness ==
    \E i \in 1..Len(exits) :
        \E k \in 1..Len(exporter) :
            /\ Len(exits[i].events) = 2
            /\ Len(GeometryOf(exits[i].events)) = 2
            /\ RecordOf(i, k)
            /\ Len(exporter[k].path) = 2
            /\ exporter[k].dashes = <<>>
            /\ Plotted(exits[i].id) = 1

----------------------------------------------------------------------------
C16_Transferred ==
    /\ \A i \in 1..Len(exits) :
           \A j \in 1..Len(exits) : i # j => exits[i].id # exits[j].id
    /\ \A i \in 1..Len(exits) :
           \A j \in 1..Len(stack) : stack[j].kind = "shape" => stack[j].id # exits[i].id
    /\ \A i \in 1..Len(exits) :
           StrokedExit(exits[i]) =>
               /\ exits[i].path_ = <<>>
               /\ exits[i].dasharray_ = <<>>
               /\ exits[i].plots = 1
               /\ \E k \in 1..Len(exporter) :
                      /\ RecordOf(i, k)
                      /\ Len(exporter[k].path) = Len(GeometryOf(exits[i].events))
                      /\ exporter[k].dashes = LastDash(exits[i].events)

\* what an element-exit left and what it plotted stay as they are
C16_Frozen ==
    /\ Len(exits') >= Len(exits)
    /\ \A i \in 1..Len(exits) : exits'[i] = exits[i]
    /\ Len(exporter') >= Len(exporter)
    /\ \A k \in 1..Len(exporter) : exporter'[k] = exporter[k]

\* C16: Finalized is terminal and entered once for a shape context: its
\* element-exit happens once, after all its events, and no event reaches it
\* afterwards; after an exit with stroke enabled the context's path and
\* dasharray are empty, the record holds them, and nothing alters the record.
C16_FinalizedTerminal == []C16_Transferred /\ [][C16_Frozen]_vars

\* a finalized shape whose command and dashes are in the record and no
\* longer in the context
C16_Witness ==
    \E i \in 1..Len(exits) :
        \E k \in 1..Len(exporter) :
            /\ StrokedExit(exits[i])
            /\ RecordOf(i, k)
            /\ exporter[k].path # <<>>
            /\ exporter[k].dashes # <<>>
            /\ exits[i].path_ = <<>>
            /\ exits[i].dasharray_ = <<>>

----------------------------------------------------------------------------
\* the stroke flag is enabled exactly as long as no stroke = none came
StrokeFlagFollowsNone ==
    /\ \A i \in 1..Len(stack) :
           stack[i].kind = "shape" =>
               stack[i].stroke_ = ~Has(stack[i].events, {"stroke_none"})
    /\ \A i \in 1..Len(exits) :
           exits[i].stroke_ = ~Has(exits[i].events, {"stroke_none"})

\* C17: the stroke flag starts enabled, stroke = none disables it and no
\* event enables it again; so a shape is plotted at its element-exit exactly
\* when no stroke = none event was delivered to it.
C17_PlottedIffNoStrokeNone ==
    /\ StrokeFlagFollowsNone
    /\ \A i \in 1..Len(exits) :
           (Plotted(exits[i].id) = 1) = ~Has(exits[i].events, {"stroke_none"})

----------------------------------------------------------------------------
\* number of events named `attribute` with a value in `values`
RECURSIVE CountIn(_, _, _)
CountIn(events, attribute, values) ==
    IF events = <<>> THEN 0
    ELSE (IF Head(events).ev = attribute /\ Head(events).arg \in values THEN 1 ELSE 0)
             + CountIn(Tail(events), attribute, values)

RECURSIVE CountOver(_, _, _)
CountOver(contexts, attribute, values) ==
    IF contexts = <<>> THEN 0
    ELSE CountIn(Head(contexts).events, attribute, values)
             + CountOver(Tail(contexts), attribute, values)

\* unsupported values of `attribute` delivered so far to any context
Delivered(attribute, values) ==
    CountOver(stack, attribute, values) + CountOver(exits, attribute, values)

Logged(level, attribute) ==
    Cardinality({k \in 1..Len(log) : log[k].level = level /\ log[k].attribute = attribute})

\* a color, alone or with a skipped ICC color
SimpleColor == {"color", "color_icc"}

\* C18: every unsupported fill or stroke value makes exactly one log entry,
\* at debug severity for a simple color and at warning severity for any other
\* kind of value; no other event makes a log entry.
C18_OneLogEntryPerUnsupported ==
    /\ \A attribute \in {"stroke", "fill"} :
           /\ Logged("debug", attribute) = Delivered(attribute, SimpleColor)
           /\ Logged("warn", attribute) = Delivered(attribute, UnsupportedStroke \ SimpleColor)
    /\ Len(log) = Delivered("stroke", UnsupportedStroke) + Delivered("fill", UnsupportedStroke)
    /\ \A k \in 1..Len(log) :
           /\ log[k].level \in {"debug", "warn"}
           /\ log[k].attribute \in {"stroke", "fill"}

\* a color logged at debug and another kind of value logged at warning, for
\* a shape that was left afterwards
C18_Witness ==
    /\ Len(log) = 2
    /\ log[1].level = "debug"
    /\ log[2].level = "warn"
    /\ Delivered("fill", UnsupportedStroke) + Delivered("stroke", UnsupportedStroke) = 2
    /\ exits # <<>>

----------------------------------------------------------------------------
\* the step is an event handled by the shape context on top
EventStep ==
    /\ stack # <<>>
    /\ Len(stack') = Len(stack)
    /\ Top.kind = "shape"
    /\ Len(stack'[Len(stack)].events) = Len(Top.events) + 1

StateFields == {"path_", "dasharray_", "stroke_", "fill_fragment_iri_", "to_root"}

ControlFields == {"kind", "id", "node", "pc", "lookups", "loads", "traversals", "plots"}

\* the field the events of this name may write
OwnField(name) ==
    CASE name \in GeometryNames -> "path_"
      [] name \in {"stroke_dasharray", "stroke_dasharray_none"} -> "dasharray_"
      [] name \in {"stroke", "stroke_none"} -> "stroke_"
      [] name \in {"fill", "fill_none", "fill_iri_fragment"} -> "fill_fragment_iri_"
      [] OTHER -> "to_root"

Kept(before, after, fields) == \A f \in fields : after[f] = before[f]

C19_OwnFieldOnly ==
    EventStep =>
        LET n == Len(stack)
            before == Top
            after == stack'[n]
            name == after.events[Len(after.events)].ev
        IN /\ Kept(before, after, (StateFields \ {OwnField(name)}) \cup ControlFields)
           /\ name \in GeometryNames =>
                  /\ Len(after.path_) = Len(before.path_) + 1
                  /\ SubSeq(after.path_, 1, Len(before.path_)) = before.path_
           /\ SubSeq(after.events, 1, Len(before.events)) = before.events
           /\ \A i \in 1..(n - 1) : stack'[i] = stack[i]
           /\ exporter' = exporter
           /\ exits' = exits
           /\ status' = status

\* C19: an event changes only its own field of the shape context that gets
\* it: a geometry event appends one command to the path and leaves the
\* earlier ones, a stroke-dasharray event changes only the dasharray, a stroke
\* event only the stroke flag, a fill event only the fill reference; no event
\* changes another context or calls the exporter.
C19_EventFrame == [][C19_OwnFieldOnly]_vars

\* a shape of a pattern that got a dasharray while the shape the pattern
\* fills waits below with its own state
C19_Witness ==
    /\ Len(stack) = 3
    /\ stack[3].kind = "shape"
    /\ Len(stack[3].events) = 1
    /\ stack[3].events[1].ev = "stroke_dasharray"
    /\ stack[3].dasharray_ # <<>>
    /\ stack[3].stroke_
    /\ stack[3].path_ = <<>>
    /\ stack[1].pc = "fill"
    /\ stack[1].dasharray_ = <<>>
    /\ exporter = <<>>

====
